---- MODULE Spec2Model ----
(***************************************************************************)
(* Package awsiotcore: device identity from an X.509 certificate, the TLS  *)
(* client configuration of an MQTT connection, and the derived values of a *)
(* Device (broker address, identifier, telemetry topic).                   *)
(*                                                                         *)
(* Files are sequences of chunks: a chunk is free text that is no PEM      *)
(* block, or a PEM block with a type label, a header count and DER bytes.  *)
(* DER bytes are a certificate (subject common name, public key), a        *)
(* private key (its public half), or bytes that parse as neither.          *)
(***************************************************************************)
EXTENDS Integers, Sequences, FiniteSets, TLC

VARIABLES d, pc, fr, heap, ret

vars == <<d, pc, fr, heap, ret>>

(***************************************************************************)
(* Bounds of the model.                                                    *)
(***************************************************************************)
\* Longest list of option functions a caller passes to NewClient.
MaxOptions == 2

\* Callers (goroutines), each owning one Device.
Callers == {1, 2}

\* Addresses at which mqtt.NewClientOptions can place a ClientOptions value.
Addrs == {1, 2}

(***************************************************************************)
(* Go values.                                                              *)
(***************************************************************************)
\* The nil error, nil pointer, nil interface.
nil == [nil |-> TRUE]

\* An error value: its text, and the error it wraps (%w) or nil.
Error(text, wrapped) == [msg |-> text, unwrap |-> wrapped]

\* fmt.Errorf with one verb at the end of the format: %v prints the
\* argument's text, %w prints it and keeps the argument as the wrapped error.
Errorf(prefix, verb, arg) ==
    Error(prefix \o arg.msg, IF verb = "%w" THEN arg ELSE nil)

\* fmt.Sprintf over a format cut at its verbs: every "%v" piece is replaced
\* by the next argument, every other piece is copied.
RECURSIVE Sprintf(_, _)
Sprintf(format, args) ==
    IF format = <<>> THEN ""
    ELSE IF Head(format) = "%v"
         THEN Head(args) \o Sprintf(Tail(format), Tail(args))
         ELSE Head(format) \o Sprintf(Tail(format), args)

(***************************************************************************)
(* The file system the program reads.                                      *)
(***************************************************************************)
Junk == [pem |-> FALSE]

Block(type, headers, bytes) ==
    [pem |-> TRUE, Type |-> type, Headers |-> headers, Bytes |-> bytes]

CertDER(cn, pub) == [kind |-> "cert", cn |-> cn, pub |-> pub]
KeyDER(pub) == [kind |-> "key", pub |-> pub]
BadDER == [kind |-> "bad"]

ENOENT == Error("no such file or directory", nil)
EACCES == Error("permission denied", nil)

File(data) == [err |-> nil, data |-> data]
NoFile(e) == [err |-> e, data |-> <<>>]

\* The files on disk, by path. A path outside the table does not exist.
Disk ==
    [p \in {"roots.pem", "roots-mixed.pem", "roots-bad.pem", "roots-locked.pem",
            "my-device.x509", "other.x509", "bad.x509", "locked.x509",
            "my-device.pem", "other.pem", "bad.pem", "notes.txt"} |->
        CASE p = "roots.pem" ->
                File(<<Block("CERTIFICATE", 0, CertDER("Amazon Root CA 1", "ca1")),
                       Block("CERTIFICATE", 0, CertDER("Amazon Root CA 3", "ca3"))>>)
          [] p = "roots-mixed.pem" ->
                File(<<Junk,
                       Block("CERTIFICATE", 0, BadDER),
                       Block("CERTIFICATE", 1, CertDER("Amazon Root CA 3", "ca3")),
                       Block("CERTIFICATE", 0, CertDER("Amazon Root CA 1", "ca1"))>>)
          [] p = "roots-bad.pem" ->
                File(<<Block("CERTIFICATE", 0, BadDER),
                       Block("CERTIFICATE", 1, CertDER("Amazon Root CA 3", "ca3")),
                       Block("PUBLIC KEY", 0, CertDER("Amazon Root CA 1", "ca1"))>>)
          [] p = "roots-locked.pem" -> NoFile(EACCES)
          [] p = "my-device.x509" ->
                File(<<Junk, Block("CERTIFICATE", 0, CertDER("my-device", "k1"))>>)
          [] p = "other.x509" ->
                File(<<Block("CERTIFICATE", 0, CertDER("", "k2"))>>)
          [] p = "bad.x509" ->
                File(<<Block("CERTIFICATE", 0, BadDER)>>)
          [] p = "locked.x509" -> NoFile(EACCES)
          [] p = "my-device.pem" ->
                File(<<Block("EC PARAMETERS", 0, BadDER),
                       Block("EC PRIVATE KEY", 0, KeyDER("k1"))>>)
          [] p = "other.pem" ->
                File(<<Block("PRIVATE KEY", 0, KeyDER("k2"))>>)
          [] p = "bad.pem" ->
                File(<<Block("RSA PRIVATE KEY", 0, BadDER)>>)
          [] p = "notes.txt" -> File(<<Junk>>)]

\* os.ReadFile / ioutil.ReadFile: the file's bytes, or the error of the
\* failed open or read.
ReadFile(path) ==
    IF path \in DOMAIN Disk THEN Disk[path] ELSE NoFile(ENOENT)

\* A test for a missing file that never recognises one.
IsNotExistNever(e) == FALSE

\* os.IsNotExist.
IsNotExist(e) == e = ENOENT

\* pem.Decode: the first PEM block of the data and the data after it; text
\* that is no PEM block is skipped; no block leaves the data as it was.
RECURSIVE PemDecode(_)
PemDecode(data) ==
    IF data = <<>> THEN [block |-> nil, rest |-> data]
    ELSE IF Head(data).pem THEN [block |-> Head(data), rest |-> Tail(data)]
    ELSE LET r == PemDecode(Tail(data))
         IN  IF r.block = nil THEN [block |-> nil, rest |-> data] ELSE r

\* x509.ParseCertificate.
ParseCertificate(bytes) ==
    IF bytes.kind = "cert"
    THEN [err |-> nil, cert |-> [CommonName |-> bytes.cn, PublicKey |-> bytes.pub]]
    ELSE [err |-> Error("x509: malformed certificate", nil), cert |-> nil]

\* (*x509.CertPool).AppendCertsFromPEM: every block of the data that is a
\* CERTIFICATE block without headers and parses as a certificate is added to
\* the pool; ok reports whether any was.
RECURSIVE AppendCertsFromPEM(_, _)
AppendCertsFromPEM(pool, pemCerts) ==
    LET r == PemDecode(pemCerts)
    IN  IF pemCerts = <<>> \/ r.block = nil THEN [ok |-> FALSE, pool |-> pool]
        ELSE IF r.block.Type # "CERTIFICATE" \/ r.block.Headers # 0
             THEN AppendCertsFromPEM(pool, r.rest)
        ELSE LET c == ParseCertificate(r.block.Bytes)
             IN  IF c.err # nil THEN AppendCertsFromPEM(pool, r.rest)
                 ELSE [ok |-> TRUE,
                       pool |-> AppendCertsFromPEM(Append(pool, c.cert), r.rest).pool]

\* The PEM blocks of the data, in order (the loop over pem.Decode).
RECURSIVE PemBlocks(_)
PemBlocks(data) ==
    LET r == PemDecode(data)
    IN  IF r.block = nil THEN <<>> ELSE <<r.block>> \o PemBlocks(r.rest)

\* strings.HasSuffix(type, " PRIVATE KEY"), or the type is "PRIVATE KEY".
IsPrivateKeyType(type) ==
    type \in {"PRIVATE KEY", "RSA PRIVATE KEY", "EC PRIVATE KEY"}

\* tls.X509KeyPair: the CERTIFICATE blocks of the certificate input and the
\* first private-key block of the key input; the leaf certificate and the key
\* must parse, and the key must be the certificate's.
X509KeyPair(certPEMBlock, keyPEMBlock) ==
    LET fail(text) == [err |-> Error(text, nil), cert |-> nil]
        cblocks == PemBlocks(certPEMBlock)
        chain == SelectSeq(cblocks, LAMBDA b : b.Type = "CERTIFICATE")
        kblocks == PemBlocks(keyPEMBlock)
        keys == SelectSeq(kblocks, LAMBDA b : IsPrivateKeyType(b.Type))
    IN  IF chain = <<>>
        THEN IF cblocks = <<>>
             THEN fail("tls: failed to find any PEM data in certificate input")
             ELSE fail("tls: failed to find certificate PEM data in certificate input")
        ELSE IF keys = <<>>
        THEN IF kblocks = <<>>
             THEN fail("tls: failed to find any PEM data in key input")
             ELSE fail("tls: failed to find private key PEM data in key input")
        ELSE LET x509Cert == ParseCertificate(chain[1].Bytes)
                 key == keys[1].Bytes
             IN  IF x509Cert.err # nil THEN [err |-> x509Cert.err, cert |-> nil]
                 ELSE IF key.kind # "key" THEN fail("tls: failed to parse private key")
                 ELSE IF key.pub # x509Cert.cert.PublicKey
                 THEN fail("tls: private key does not match public key")
                 ELSE [err |-> nil,
                       cert |-> [Certificate |-> [i \in 1..Len(chain) |-> chain[i].Bytes],
                                 PrivateKey |-> key]]

\* tls.LoadX509KeyPair: both files are read, the certificate file first.
LoadX509KeyPair(certFile, keyFile) ==
    LET c == ReadFile(certFile)
        k == ReadFile(keyFile)
    IN  IF c.err # nil THEN [err |-> c.err, cert |-> nil]
        ELSE IF k.err # nil THEN [err |-> k.err, cert |-> nil]
        ELSE X509KeyPair(c.data, k.data)

(***************************************************************************)
(* Package awsiotcore: the functions without state.                        *)
(***************************************************************************)
\* The errors the package makes.
CertNotExistError(certPath) ==
    Error("awsiotcore: cert file does not exist: " \o certPath, nil)

CertReadError(cause) == Errorf("awsiotcore: failed to read cert: ", "%v", cause)

CertDecodeError == Error("awsiotcore: failed to decode PEM certificate", nil)

CAReadError(cause) == Errorf("awsiotcore: failed to read CA certs: ", "%v", cause)

NoCertsError == Error("awsiotcore: no certs were parsed from given CA certs", nil)

\* A key-pair error that prints its cause and does not wrap it.
KeyPairErrorFlat(cause) == Errorf("awsiotcore: failed to load x509 key pair: ", "%v", cause)

KeyPairError(cause) == Errorf("awsiotcore: failed to load x509 key pair: ", "%w", cause)

\* DeviceIDFromCert: the common name of the certificate in the file's first
\* PEM block.
DeviceIDFromCert(certPath) ==
    LET f == ReadFile(certPath)
        block == PemDecode(f.data).block
    IN  IF f.err # nil
        THEN IF IsNotExist(f.err)
             THEN [id |-> "", err |-> CertNotExistError(certPath)]
             ELSE [id |-> "", err |-> CertReadError(f.err)]
        ELSE IF block = nil \/ block.Type # "CERTIFICATE"
        THEN [id |-> "", err |-> CertDecodeError]
        ELSE LET c == ParseCertificate(block.Bytes)
             IN  IF c.err # nil THEN [id |-> "", err |-> c.err]
                 ELSE [id |-> c.cert.CommonName, err |-> nil]

\* type Device; the zero value has every field empty.
Device(endpoint, deviceID, override, caCerts, certPath, privKeyPath) ==
    [Endpoint |-> endpoint, DeviceID |-> deviceID,
     TelemetryTopicOverride |-> override,
     CACerts |-> caCerts, CertPath |-> certPath, PrivKeyPath |-> privKeyPath]

\* The port of MQTT over TLS.
Port == 8883

\* A broker address computed once, for the first Endpoint, and kept.
BrokerCached(dev) == [Host |-> "myendpoint", Port |-> 8883]

\* (*Device).Broker.
Broker(dev) == [Host |-> dev.Endpoint, Port |-> Port]

\* An identifier taken from the wrong field.
IDFromEndpoint(dev) == dev.Endpoint

\* (*Device).ID.
ID(dev) == dev.DeviceID

\* A telemetry topic that ignores the override.
TelemetryTopicNoOverride(dev) ==
    Sprintf(<<"things/", "%v", "/telemetry">>, <<dev.DeviceID>>)

\* (*Device).TelemetryTopic.
TelemetryTopic(dev) ==
    IF dev.TelemetryTopicOverride # ""
    THEN dev.TelemetryTopicOverride
    ELSE Sprintf(<<"things/", "%v", "/telemetry">>, <<dev.DeviceID>>)

\* (*MQTTBroker).URL: scheme, host and port of the broker.
URL(broker) ==
    Sprintf(<<"ssl://", "%v", ":", "%v">>, <<broker.Host, ToString(broker.Port)>>)

(***************************************************************************)
(* The MQTT library's values that NewClient builds.                        *)
(***************************************************************************)
\* mqtt.NewClientOptions: a new ClientOptions with the library's defaults.
NewClientOptions ==
    [Servers |-> <<>>, ClientID |-> "", TLSConfig |-> nil, ConnectTimeout |-> 30]

\* An allocation that hands every caller the same address.
NewAddrShared(h) == CHOOSE a \in Addrs : \A b \in Addrs : a <= b

\* The address of a newly allocated value: one that holds no live value.
NewAddr(h) == CHOOSE a \in Addrs : h[a] = nil /\ \A b \in Addrs : h[b] = nil => a <= b

\* mqtt.NewClient: the client keeps a copy of the options.
MqttNewClient(o) == [options |-> o]

\* The tls.Config literal of NewClient.
TLSConfig(dev, certpool, cert) ==
    [RootCAs |-> certpool,
     ClientAuth |-> "RequireAndVerifyClientCert",
     Certificates |-> <<cert>>,
     ServerName |-> dev.Endpoint,
     MinVersion |-> "VersionTLS12"]

\* The ClientOptions of NewClient before any option function ran:
\* AddBroker, SetClientID, SetTLSConfig on a new ClientOptions.
BaseOptions(dev, certpool, cert) ==
    [NewClientOptions EXCEPT
        !.Servers = Append(@, URL(Broker(dev))),
        !.ClientID = dev.DeviceID,
        !.TLSConfig = TLSConfig(dev, certpool, cert)]

(***************************************************************************)
(* The option functions callers pass. Each receives a pointer to the       *)
(* Device and a pointer to the ClientOptions, so it may change both, and   *)
(* returns an error or nil.                                                *)
(***************************************************************************)
OptionKinds == {"ConnectTimeout", "Rehome", "Fail", "Refuse"}

\* One call of an option function: the Device and ClientOptions it leaves,
\* and the error it returns.
ApplyOption(kind, dev, o) ==
    CASE kind = "ConnectTimeout" ->
            [d |-> dev, o |-> [o EXCEPT !.ConnectTimeout = 5], err |-> nil]
      [] kind = "Rehome" ->
            [d |-> [dev EXCEPT !.Endpoint = "elsewhere"],
             o |-> [o EXCEPT !.Servers = <<URL(Broker([dev EXCEPT !.Endpoint = "elsewhere"]))>>],
             err |-> nil]
      [] kind = "Fail" ->
            [d |-> dev, o |-> o, err |-> Error("option: fail", nil)]
      [] kind = "Refuse" ->
            [d |-> dev, o |-> [o EXCEPT !.ClientID = ""], err |-> Error("option: refuse", nil)]

\* All sequences over S of length at most n.
RECURSIVE SeqsUpTo(_, _)
SeqsUpTo(S, n) ==
    IF n = 0 THEN {<<>>}
    ELSE LET shorter == SeqsUpTo(S, n - 1)
         IN  shorter \cup {Append(q, x) : q \in shorter, x \in S}

(***************************************************************************)
(* State.                                                                  *)
(*   d[t]    the Device caller t owns                                      *)
(*   pc[t]   where caller t is: "idle" between calls, or the next step of  *)
(*           its running NewClient                                         *)
(*   fr[t]   the locals of caller t's running NewClient                    *)
(*   heap[a] the ClientOptions value at address a, nil when none is live   *)
(*   ret[t]  what caller t's last call returned                            *)
(***************************************************************************)
ZeroDevice == Device("", "", "", "", "", "")

NoFrame ==
    [options |-> <<>>, i |-> 0, pemCerts |-> <<>>, certpool |-> <<>>,
     cert |-> nil, opts |-> 0, trace |-> <<>>, dev0 |-> ZeroDevice]

NoRet == [op |-> "none"]

Init ==
    /\ d = [t \in Callers |-> ZeroDevice]
    /\ pc = [t \in Callers |-> "idle"]
    /\ fr = [t \in Callers |-> NoFrame]
    /\ heap = [a \in Addrs |-> nil]
    /\ ret = [t \in Callers |-> NoRet]

(***************************************************************************)
(* The caller's own statements between calls.                              *)
(***************************************************************************)
\* d := Device{...}
NewDevice(t, dev) ==
    /\ pc[t] = "idle"
    /\ d[t] = ZeroDevice
    /\ ret[t] = NoRet
    /\ d' = [d EXCEPT ![t] = dev]
    /\ ret' = [ret EXCEPT ![t] = NoRet]
    /\ UNCHANGED <<pc, fr, heap>>

\* d.Endpoint = e
SetEndpoint(t, e) ==
    /\ pc[t] = "idle"
    /\ d[t].Endpoint # e
    /\ d' = [d EXCEPT ![t].Endpoint = e]
    /\ ret' = [ret EXCEPT ![t] = NoRet]
    /\ UNCHANGED <<pc, fr, heap>>

\* id := d.ID()
CallID(t) ==
    /\ pc[t] = "idle"
    /\ ret' = [ret EXCEPT ![t] = [op |-> "ID", val |-> ID(d[t]), dev |-> d[t]]]
    /\ UNCHANGED <<d, pc, fr, heap>>

\* b := d.Broker()
CallBroker(t) ==
    /\ pc[t] = "idle"
    /\ ret' = [ret EXCEPT ![t] = [op |-> "Broker", val |-> Broker(d[t]), dev |-> d[t]]]
    /\ UNCHANGED <<d, pc, fr, heap>>

\* topic := d.TelemetryTopic()
CallTelemetryTopic(t) ==
    /\ pc[t] = "idle"
    /\ ret' = [ret EXCEPT ![t] = [op |-> "TelemetryTopic", val |-> TelemetryTopic(d[t]), dev |-> d[t]]]
    /\ UNCHANGED <<d, pc, fr, heap>>

\* id, err := DeviceIDFromCert(path)
CallDeviceIDFromCert(t, path) ==
    /\ pc[t] = "idle"
    /\ ret' = [ret EXCEPT ![t] =
                 [op |-> "DeviceIDFromCert", path |-> path,
                  val |-> DeviceIDFromCert(path).id, err |-> DeviceIDFromCert(path).err]]
    /\ UNCHANGED <<d, pc, fr, heap>>

(***************************************************************************)
(* Device.NewClient, one action per step that can fail or that calls       *)
(* caller code. The trace of the frame lists the steps that ran.           *)
(***************************************************************************)
Ran(t, entry) == Append(fr[t].trace, entry)

\* return client, err: the frame is gone, the ClientOptions is no longer
\* referenced by NewClient.
Return(t, client, err, trace) ==
    /\ ret' = [ret EXCEPT ![t] =
                 [op |-> "NewClient", client |-> client, err |-> err,
                  trace |-> trace, options |-> fr[t].options, dev0 |-> fr[t].dev0]]
    /\ pc' = [pc EXCEPT ![t] = "idle"]
    /\ fr' = [fr EXCEPT ![t] = NoFrame]

\* A NewClient that loads the key pair first and never reads the CA bundle.
StartNewClientKeyPairFirst(t, options) ==
    /\ pc[t] = "idle"
    /\ pc' = [pc EXCEPT ![t] = "loadKeyPair"]
    /\ fr' = [fr EXCEPT ![t] = [NoFrame EXCEPT !.options = options, !.dev0 = d[t]]]
    /\ ret' = [ret EXCEPT ![t] = NoRet]
    /\ UNCHANGED <<d, heap>>

\* client, err := d.NewClient(options...)
StartNewClient(t, options) ==
    /\ pc[t] = "idle"
    /\ pc' = [pc EXCEPT ![t] = "readCA"]
    /\ fr' = [fr EXCEPT ![t] = [NoFrame EXCEPT !.options = options, !.dev0 = d[t]]]
    /\ ret' = [ret EXCEPT ![t] = NoRet]
    /\ UNCHANGED <<d, heap>>

\* pemCerts, err := os.ReadFile(d.CACerts)
ReadCA(t) ==
    /\ pc[t] = "readCA"
    /\ LET f == ReadFile(d[t].CACerts)
       IN  IF f.err # nil
           THEN Return(t, nil, CAReadError(f.err), Ran(t, [step |-> "readCA"]))
           ELSE /\ fr' = [fr EXCEPT ![t].pemCerts = f.data,
                                    ![t].trace = Ran(t, [step |-> "readCA"])]
                /\ pc' = [pc EXCEPT ![t] = "parseCA"]
                /\ UNCHANGED ret
    /\ UNCHANGED <<d, heap>>

\* A parse step that does not look at what AppendCertsFromPEM reports.
ParseCAUnchecked(t) ==
    /\ pc[t] = "parseCA"
    /\ fr' = [fr EXCEPT ![t].certpool = AppendCertsFromPEM(<<>>, fr[t].pemCerts).pool,
                        ![t].trace = Ran(t, [step |-> "parseCA"])]
    /\ pc' = [pc EXCEPT ![t] = "loadKeyPair"]
    /\ UNCHANGED <<d, heap, ret>>

\* certpool := x509.NewCertPool(); certpool.AppendCertsFromPEM(pemCerts)
ParseCA(t) ==
    /\ pc[t] = "parseCA"
    /\ LET r == AppendCertsFromPEM(<<>>, fr[t].pemCerts)
       IN  IF ~r.ok
           THEN Return(t, nil, NoCertsError, Ran(t, [step |-> "parseCA"]))
           ELSE /\ fr' = [fr EXCEPT ![t].certpool = r.pool,
                                    ![t].trace = Ran(t, [step |-> "parseCA"])]
                /\ pc' = [pc EXCEPT ![t] = "loadKeyPair"]
                /\ UNCHANGED ret
    /\ UNCHANGED <<d, heap>>

\* cert, err := tls.LoadX509KeyPair(d.CertPath, d.PrivKeyPath)
LoadKeyPair(t) ==
    /\ pc[t] = "loadKeyPair"
    /\ LET r == LoadX509KeyPair(d[t].CertPath, d[t].PrivKeyPath)
       IN  IF r.err # nil
           THEN Return(t, nil, KeyPairError(r.err), Ran(t, [step |-> "loadKeyPair"]))
           ELSE /\ fr' = [fr EXCEPT ![t].cert = r.cert,
                                    ![t].trace = Ran(t, [step |-> "loadKeyPair"])]
                /\ pc' = [pc EXCEPT ![t] = "base"]
                /\ UNCHANGED ret
    /\ UNCHANGED <<d, heap>>

\* tlsConf, broker, opts: the ClientOptions before any option function.
BuildBase(t) ==
    /\ pc[t] = "base"
    /\ LET a == NewAddr(heap)
       IN  /\ heap' = [heap EXCEPT ![a] = BaseOptions(d[t], fr[t].certpool, fr[t].cert)]
           /\ fr' = [fr EXCEPT ![t].opts = a, ![t].i = 1,
                               ![t].trace = Ran(t, [step |-> "base", opts |-> a])]
    /\ pc' = [pc EXCEPT ![t] = "options"]
    /\ UNCHANGED <<d, ret>>

\* for _, option := range options: the option of the i-th iteration.
OptionAt(options, i) == options[i]

\* A loop that goes on after a failed option.
AbortsNever(err) == FALSE

\* if err := option(d, opts); err != nil { return nil, err }
Aborts(err) == err # nil

\* One iteration of the loop over options: err := option(d, opts).
CallOption(t) ==
    /\ pc[t] = "options"
    /\ fr[t].i <= Len(fr[t].options)
    /\ LET a == fr[t].opts
           kind == OptionAt(fr[t].options, fr[t].i)
           r == ApplyOption(kind, d[t], heap[a])
           ran == Ran(t, [step |-> "option", i |-> fr[t].i, kind |-> kind,
                          dev |-> t, opts |-> a, saw |-> heap[a], err |-> r.err])
       IN  /\ d' = [d EXCEPT ![t] = r.d]
           /\ IF Aborts(r.err)
              THEN /\ Return(t, nil, r.err, ran)
                   /\ heap' = [heap EXCEPT ![a] = nil]
              ELSE /\ heap' = [heap EXCEPT ![a] = r.o]
                   /\ fr' = [fr EXCEPT ![t].i = @ + 1, ![t].trace = ran]
                   /\ UNCHANGED <<pc, ret>>

\* return mqtt.NewClient(opts), nil
CreateClient(t) ==
    /\ pc[t] = "options"
    /\ fr[t].i > Len(fr[t].options)
    /\ Return(t, MqttNewClient(heap[fr[t].opts]), nil, Ran(t, [step |-> "create"]))
    /\ heap' = [heap EXCEPT ![fr[t].opts] = nil]
    /\ UNCHANGED d

(***************************************************************************)
(* NewClient as one function: what a call returns, and the Device it       *)
(* leaves, when nothing else runs between its steps.                       *)
(***************************************************************************)
RECURSIVE ApplyOptions(_, _, _, _)
ApplyOptions(options, i, dev, o) ==
    IF i > Len(options)
    THEN [client |-> MqttNewClient(o), err |-> nil, dev |-> dev]
    ELSE LET r == ApplyOption(OptionAt(options, i), dev, o)
         IN  IF Aborts(r.err) THEN [client |-> nil, err |-> r.err, dev |-> r.d]
             ELSE ApplyOptions(options, i + 1, r.d, r.o)

NewClient(dev, options) ==
    LET f == ReadFile(dev.CACerts)
        p == AppendCertsFromPEM(<<>>, f.data)
        k == LoadX509KeyPair(dev.CertPath, dev.PrivKeyPath)
    IN  IF f.err # nil THEN [client |-> nil, err |-> CAReadError(f.err), dev |-> dev]
        ELSE IF ~p.ok THEN [client |-> nil, err |-> NoCertsError, dev |-> dev]
        ELSE IF k.err # nil THEN [client |-> nil, err |-> KeyPairError(k.err), dev |-> dev]
        ELSE ApplyOptions(options, 1, dev, BaseOptions(dev, p.pool, k.cert))

(***************************************************************************)
(* Inputs.                                                                 *)
(***************************************************************************)
\* Endpoint, DeviceID and TelemetryTopicOverride of the Devices callers make.
Idents ==
    {<<"", "", "">>,
     <<"myendpoint", "foo", "">>,
     <<"myendpoint", "foo", "things/foo/my/custom/topic">>,
     <<"myendpoint", "", "things/foo/my/custom/topic">>}

\* The endpoints a caller later assigns to d.Endpoint.
NewEndpoints == {"myendpoint", "my-endpoint"}

CAPaths == {"roots.pem", "roots-mixed.pem", "roots-bad.pem", "roots-locked.pem", ""}

\* CertPath and PrivKeyPath of the Devices callers make.
KeyPairPaths ==
    {<<"my-device.x509", "my-device.pem">>,
     <<"other.x509", "other.pem">>,
     <<"my-device.x509", "other.pem">>,
     <<"bad.x509", "my-device.pem">>,
     <<"my-device.x509", "bad.pem">>,
     <<"locked.x509", "my-device.pem">>,
     <<"my-device.x509", "nope.pem">>,
     <<"my-device.pem", "my-device.x509">>,
     <<"", "">>}

\* The paths callers give to DeviceIDFromCert.
CertFilePaths ==
    {"my-device.x509", "other.x509", "bad.x509", "locked.x509",
     "my-device.pem", "roots-mixed.pem", "notes.txt", "nope.pem"}

Devices ==
    {Device(id[1], id[2], id[3], ca, kp[1], kp[2]) :
        id \in Idents, ca \in CAPaths, kp \in KeyPairPaths}

OptionLists == SeqsUpTo(OptionKinds, MaxOptions)

\* The Devices and option lists of the callers that run side by side.
ConcDevices ==
    {Device("myendpoint", "foo", "", "roots.pem", "my-device.x509", "my-device.pem"),
     Device("my-endpoint", "my-device", "", "roots-mixed.pem", "other.x509", "other.pem")}

ConcOptionLists == SeqsUpTo({"Rehome", "Refuse"}, MaxOptions)

\* One caller, every input.
Next ==
    \E t \in {1} :
        \/ \E dev \in Devices : NewDevice(t, dev)
        \/ \E e \in NewEndpoints : SetEndpoint(t, e)
        \/ CallID(t)
        \/ CallBroker(t)
        \/ CallTelemetryTopic(t)
        \/ \E path \in CertFilePaths : CallDeviceIDFromCert(t, path)
        \/ \E options \in OptionLists : StartNewClient(t, options)
        \/ ReadCA(t)
        \/ ParseCA(t)
        \/ LoadKeyPair(t)
        \/ BuildBase(t)
        \/ CallOption(t)
        \/ CreateClient(t)

Spec == Init /\ [][Next]_vars

\* Two callers, each with its own Device, building clients side by side.
NextConc ==
    \E t \in Callers :
        \/ \E dev \in ConcDevices : NewDevice(t, dev)
        \/ \E options \in ConcOptionLists : StartNewClient(t, options)
        \/ ReadCA(t)
        \/ ParseCA(t)
        \/ LoadKeyPair(t)
        \/ BuildBase(t)
        \/ CallOption(t)
        \/ CreateClient(t)

SpecConc == Init /\ [][NextConc]_vars

(***************************************************************************)
(* Facts about the files, stated on the chunks and not through the         *)
(* library's loops.                                                        *)
(***************************************************************************)
Exists(path) == path \in DOMAIN Disk
Readable(path) == Exists(path) /\ Disk[path].err = nil
Data(path) == Disk[path].data

\* The positions of the PEM blocks in the data.
PemAt(data) == {i \in 1..Len(data) : data[i].pem}

\* No PEM block, or the first one is not labelled CERTIFICATE.
NoLeadingCertBlock(data) ==
    \/ PemAt(data) = {}
    \/ \E i \in PemAt(data) :
          /\ \A j \in PemAt(data) : i <= j
          /\ data[i].Type # "CERTIFICATE"

Returned(t) == ret[t].op = "NewClient"

\* The text of an error, empty for nil.
ErrMsg(e) == IF e = nil THEN "" ELSE e.msg

\* The positions of the blocks of a CA bundle that enter the trust store.
CAParseable(data) ==
    {i \in PemAt(data) :
        data[i].Type = "CERTIFICATE" /\ data[i].Headers = 0 /\ data[i].Bytes.kind = "cert"}

CAGood(path) == Readable(path) /\ CAParseable(Data(path)) # {}

\* The first position of S, a non-empty set of positions.
First(S) == CHOOSE i \in S : \A j \in S : i <= j

CertAt(data) == {i \in PemAt(data) : data[i].Type = "CERTIFICATE"}
KeyAt(data) == {i \in PemAt(data) : IsPrivateKeyType(data[i].Type)}

\* Both files hold what they should, each well formed.
KeyPairParses(certPath, keyPath) ==
    /\ Readable(certPath) /\ Readable(keyPath)
    /\ CertAt(Data(certPath)) # {} /\ KeyAt(Data(keyPath)) # {}
    /\ Data(certPath)[First(CertAt(Data(certPath)))].Bytes.kind = "cert"
    /\ Data(keyPath)[First(KeyAt(Data(keyPath)))].Bytes.kind = "key"

\* The key is the key of the certificate.
KeyPairMatches(certPath, keyPath) ==
    Data(certPath)[First(CertAt(Data(certPath)))].Bytes.pub
        = Data(keyPath)[First(KeyAt(Data(keyPath)))].Bytes.pub

\* The steps that ran in caller t's running or last NewClient, its option
\* list, and the calls of option functions among the steps.
TraceOf(t) ==
    IF pc[t] # "idle" THEN fr[t].trace
    ELSE IF Returned(t) THEN ret[t].trace ELSE <<>>

OptionsOf(t) ==
    IF pc[t] # "idle" THEN fr[t].options
    ELSE IF Returned(t) THEN ret[t].options ELSE <<>>

Calls(t) == SelectSeq(TraceOf(t), LAMBDA e : e.step = "option")

(***************************************************************************)
(* Properties.                                                             *)
(***************************************************************************)
\* C2: TelemetryTopic returns the override unchanged when it is not empty,
\* whatever the DeviceID, and "things/" + DeviceID + "/telemetry" otherwise.
C2_TelemetryTopic ==
    \A t \in Callers :
        ret[t].op = "TelemetryTopic" =>
            /\ d[t].TelemetryTopicOverride # "" =>
                   ret[t].val = d[t].TelemetryTopicOverride
            /\ d[t].TelemetryTopicOverride = "" =>
                   ret[t].val = "things/" \o d[t].DeviceID \o "/telemetry"
            /\ (d[t].TelemetryTopicOverride = "" /\ d[t].DeviceID = "foo") =>
                   ret[t].val = "things/foo/telemetry"

\* A Device with an identifier and an override asked for its topic.
C2_Witness ==
    \E t \in Callers :
        /\ ret[t].op = "TelemetryTopic"
        /\ d[t].DeviceID = "foo"
        /\ d[t].TelemetryTopicOverride = "things/foo/my/custom/topic"
        /\ ret[t].val = "things/foo/my/custom/topic"

\* C3: whenever DeviceIDFromCert or NewClient cannot produce a usable
\* identity or configuration the call returns an error: no success comes with
\* an empty device identifier, and no client comes with an error or after a
\* failed step.
C3_NoSuccessWithoutIdentity ==
    \A t \in Callers :
        /\ (ret[t].op = "DeviceIDFromCert" /\ ret[t].err = nil) => ret[t].val # ""
        /\ Returned(t) =>
              /\ (ret[t].client # nil) <=> (ret[t].err = nil)
              /\ ret[t].client # nil =>
                    \A k \in 1..Len(ret[t].trace) :
                        ret[t].trace[k].step = "option" => ret[t].trace[k].err = nil

\* What a path given to DeviceIDFromCert is: missing, unreadable, without a
\* leading CERTIFICATE block, or none of these.
C6_Class(path) ==
    IF ~Exists(path) THEN "not-found"
    ELSE IF ~Readable(path) THEN "read"
    ELSE IF NoLeadingCertBlock(Data(path)) THEN "decode"
    ELSE "other"

\* C6: DeviceIDFromCert fails with the not-found error for a path that does
\* not exist, with the read-failure error for a file that exists and cannot
\* be read, and with the decode-failure error for a file with no PEM block or
\* a first PEM block not labelled CERTIFICATE; each returns the empty
\* identifier, and an error of one kind is never the error of another kind.
C6_DeviceIDFromCertErrors ==
    \A t \in Callers :
        ret[t].op = "DeviceIDFromCert" =>
            LET p == ret[t].path
                c == C6_Class(p)
            IN  /\ c = "not-found" =>
                      /\ ret[t].err # nil
                      /\ ret[t].err.msg = "awsiotcore: cert file does not exist: " \o p
                /\ c = "read" =>
                      /\ ret[t].err # nil
                      /\ ret[t].err.msg = "awsiotcore: failed to read cert: permission denied"
                /\ c = "decode" =>
                      /\ ret[t].err # nil
                      /\ ret[t].err.msg = "awsiotcore: failed to decode PEM certificate"
                /\ c # "other" => ret[t].val = ""
                /\ \A q \in CertFilePaths :
                      (c # "other" /\ C6_Class(q) \notin {c, "other"}) =>
                          DeviceIDFromCert(q).err # ret[t].err

\* DeviceIDFromCert returned for a path that does not exist.
C6_Witness ==
    \E t \in Callers :
        /\ ret[t].op = "DeviceIDFromCert"
        /\ ret[t].path = "nope.pem"
        /\ ret[t].val = ""
        /\ ret[t].err # nil

\* C7: Broker returns the Device's current Endpoint as host and port 8883,
\* computed anew at each call, and leaves the Device as it was.
C7_Broker ==
    \A t \in Callers :
        ret[t].op = "Broker" =>
            /\ ret[t].val.Host = d[t].Endpoint
            /\ ret[t].val.Port = 8883
            /\ d[t] = ret[t].dev

\* Broker was called after the caller gave the Device a new Endpoint.
C7_Witness ==
    \E t \in Callers :
        /\ ret[t].op = "Broker"
        /\ d[t].Endpoint = "my-endpoint"
        /\ ret[t].val = [Host |-> "my-endpoint", Port |-> 8883]

\* C8: ID returns DeviceID as it is, whatever the other fields hold, and
\* leaves the Device as it was.
C8_ID ==
    \A t \in Callers :
        ret[t].op = "ID" =>
            /\ ret[t].val = d[t].DeviceID
            /\ d[t] = ret[t].dev

\* ID was called on a Device whose other fields are set.
C8_Witness ==
    \E t \in Callers :
        /\ ret[t].op = "ID"
        /\ ret[t].val = "foo"
        /\ d[t].Endpoint = "myendpoint"
        /\ d[t].TelemetryTopicOverride # ""
        /\ d[t].CertPath # ""

\* C1: NewClient calls the option functions in the order given, each at most
\* once, each with the same Device and the same ClientOptions; when the
\* option at position k returns an error, NewClient returns that error and no
\* client, and no option after position k is called.
C1_OptionsInOrder ==
    \A t \in Callers :
        LET calls == Calls(t)
            options == OptionsOf(t)
        IN  /\ Len(calls) <= Len(options)
            /\ \A j \in 1..Len(calls) :
                  /\ calls[j].i = j
                  /\ calls[j].kind = options[j]
                  /\ calls[j].dev = t
                  /\ calls[j].opts = calls[1].opts
                  /\ \E k \in 1..Len(TraceOf(t)) :
                        /\ TraceOf(t)[k].step = "base"
                        /\ TraceOf(t)[k].opts = calls[j].opts
                  /\ calls[j].err # nil =>
                        /\ j = Len(calls)
                        /\ Returned(t)
                        /\ ret[t].err = calls[j].err
                        /\ ret[t].client = nil
            /\ (Returned(t) /\ ret[t].client # nil) => Len(calls) = Len(options)

\* NewClient returned the error of its first option; the second, which
\* fails too, never ran.
C1_Witness ==
    \E t \in Callers :
        /\ Returned(t)
        /\ ret[t].options = <<"Fail", "Refuse">>
        /\ Len(Calls(t)) = 1
        /\ ErrMsg(ret[t].err) = "option: fail"
        /\ ret[t].client = nil

\* C4: NewClient fails with the "no certs were parsed" error exactly when the
\* CA bundle is readable and none of its entries parses as a certificate; a
\* readable bundle with one parseable certificate among malformed entries is
\* accepted and the build goes on to the key pair.
C4_TrustStoreEmpty ==
    \A t \in Callers :
        Returned(t) =>
            LET ca == ret[t].dev0.CACerts
            IN  /\ (ErrMsg(ret[t].err) = "awsiotcore: no certs were parsed from given CA certs")
                       <=> (Readable(ca) /\ CAParseable(Data(ca)) = {})
                /\ CAGood(ca) =>
                       \E k \in 1..Len(ret[t].trace) : ret[t].trace[k].step = "loadKeyPair"

\* A bundle with malformed entries and one good certificate was accepted.
C4_Witness ==
    \E t \in Callers :
        /\ Returned(t)
        /\ ret[t].dev0.CACerts = "roots-mixed.pem"
        /\ \E k \in 1..Len(ret[t].trace) : ret[t].trace[k].step = "loadKeyPair"
        /\ ret[t].client # nil

\* C5: with a readable CA bundle holding a parseable certificate, NewClient
\* fails with the key-pair error, which wraps its cause, whenever certificate
\* and key are malformed or do not belong together; it returns no client and
\* calls no option function.
C5_KeyPairError ==
    \A t \in Callers :
        LET dev == ret[t].dev0
        IN  (/\ Returned(t)
             /\ CAGood(dev.CACerts)
             /\ ~(/\ KeyPairParses(dev.CertPath, dev.PrivKeyPath)
                  /\ KeyPairMatches(dev.CertPath, dev.PrivKeyPath))) =>
                /\ ret[t].err # nil
                /\ ret[t].err.unwrap # nil
                /\ ret[t].err.msg =
                       "awsiotcore: failed to load x509 key pair: " \o ret[t].err.unwrap.msg
                /\ KeyPairParses(dev.CertPath, dev.PrivKeyPath) =>
                       ret[t].err.unwrap.msg = "tls: private key does not match public key"
                /\ ret[t].client = nil
                /\ \A k \in 1..Len(ret[t].trace) : ret[t].trace[k].step # "option"

\* NewClient returned for a certificate and the key of another certificate,
\* with options to call.
C5_Witness ==
    \E t \in Callers :
        /\ Returned(t)
        /\ ret[t].dev0.CACerts = "roots.pem"
        /\ ret[t].dev0.CertPath = "my-device.x509"
        /\ ret[t].dev0.PrivKeyPath = "other.pem"
        /\ ret[t].options # <<>>
        /\ ErrMsg(ret[t].err) =
               "awsiotcore: failed to load x509 key pair: tls: private key does not match public key"

\* The steps before the options, and the text of the error of reading a path.
C9_StepOrder == <<"readCA", "parseCA", "loadKeyPair", "base">>

C9_CauseOfRead(path) ==
    IF Exists(path) THEN "permission denied" ELSE "no such file or directory"

\* C9: NewClient runs its steps in the order CA-bundle read, CA-bundle parse,
\* key-pair load, base options (broker URL, client identifier = DeviceID, TLS
\* configuration with server name = Endpoint), options, client creation; the
\* first step that fails gives the error returned (an unreadable CA bundle
\* gives the CA read failure whatever the key pair is), no step runs after a
\* failure, and every option that runs sees the base options filled in.
C9_StepsInOrder ==
    \A t \in Callers :
        LET trace == TraceOf(t)
            n == Len(trace)
            dev == IF pc[t] # "idle" THEN fr[t].dev0 ELSE ret[t].dev0
        IN  /\ \A k \in 1..n :
                  /\ k <= Len(C9_StepOrder) => trace[k].step = C9_StepOrder[k]
                  /\ k > Len(C9_StepOrder) =>
                        /\ trace[k].step \in {"option", "create"}
                        /\ trace[k].step = "create" => (k = n /\ Returned(t))
                        /\ trace[k].step = "option" =>
                              /\ trace[k].i = k - Len(C9_StepOrder)
                              /\ trace[k].saw # nil
                              /\ trace[k].saw =
                                    IF trace[k].i = 1
                                    THEN [Servers |-> <<URL([Host |-> dev.Endpoint, Port |-> 8883])>>,
                                          ClientID |-> dev.DeviceID,
                                          TLSConfig |-> trace[k].saw.TLSConfig,
                                          ConnectTimeout |-> 30]
                                    ELSE ApplyOption(trace[k - 1].kind, dev, trace[k - 1].saw).o
                              /\ trace[k].saw.TLSConfig # nil
                              /\ trace[k].saw.TLSConfig.ServerName = dev.Endpoint
                              /\ trace[k].saw.TLSConfig.RootCAs # <<>>
                              /\ Len(trace[k].saw.TLSConfig.Certificates) = 1
            /\ Returned(t) =>
                  /\ n >= 1
                  /\ ~Readable(dev.CACerts) =>
                        /\ n = 1
                        /\ ErrMsg(ret[t].err) =
                              "awsiotcore: failed to read CA certs: " \o C9_CauseOfRead(dev.CACerts)
                  /\ ret[t].err = nil => (trace[n].step = "create" /\ ret[t].client # nil)
                  /\ ret[t].err # nil =>
                        /\ ret[t].client = nil
                        /\ trace[n].step \in {"readCA", "parseCA", "loadKeyPair", "option"}
                        /\ trace[n].step = "readCA" => ~Readable(dev.CACerts)
                        /\ trace[n].step = "parseCA" =>
                              (Readable(dev.CACerts) /\ ~CAGood(dev.CACerts) /\ ret[t].err = NoCertsError)
                        /\ trace[n].step = "loadKeyPair" =>
                              (CAGood(dev.CACerts) /\ ret[t].err.unwrap # nil)
                        /\ trace[n].step = "option" => ret[t].err = trace[n].err

\* NewClient returned the CA read failure for a Device whose CA bundle cannot
\* be read and whose key pair is bad as well.
C9_Witness ==
    \E t \in Callers :
        /\ Returned(t)
        /\ ret[t].dev0.CACerts = "roots-locked.pem"
        /\ ret[t].dev0.CertPath = "bad.x509"
        /\ ErrMsg(ret[t].err) = "awsiotcore: failed to read CA certs: permission denied"
        /\ Len(ret[t].trace) = 1

\* A step of caller t; what a step may change; what holds of every state.
C10_Moved(t) ==
    d'[t] # d[t] \/ pc'[t] # pc[t] \/ fr'[t] # fr[t] \/ ret'[t] # ret[t]

C10_StepLocal ==
    /\ \A t, u \in Callers : (C10_Moved(t) /\ C10_Moved(u)) => t = u
    /\ \A a \in Addrs :
          heap'[a] # heap[a] =>
              \E t \in Callers : C10_Moved(t) /\ a \in {fr[t].opts, fr'[t].opts}
    /\ \A t \in Callers :
          d'[t] # d[t] =>
              \/ pc[t] = "idle"
              \/ /\ pc[t] = "options"
                 /\ fr[t].i <= Len(fr[t].options)
                 /\ fr[t].options[fr[t].i] = "Rehome"

C10_Outcome ==
    /\ \A t, u \in Callers :
          (t # u /\ pc[t] = "options" /\ pc[u] = "options") => fr[t].opts # fr[u].opts
    /\ \A t \in Callers :
          Returned(t) =>
              LET alone == NewClient(ret[t].dev0, ret[t].options)
              IN  /\ ret[t].client = alone.client
                  /\ ret[t].err = alone.err
                  /\ d[t] = alone.dev

\* C10: NewClient calls running side by side for different Devices do not
\* interfere: each step changes only the state of the caller that takes it
\* and the ClientOptions of its own call, the Device changes only in the
\* caller's own code (its statements and its option functions), and every
\* call returns what it returns when it runs alone.
C10_NoInterference == []C10_Outcome /\ [][C10_StepLocal]_vars

\* One caller's NewClient returned a client while the other caller's
\* NewClient, for another Device, was between its option functions.
C10_Witness ==
    \E t, u \in Callers :
        /\ t # u
        /\ Returned(t)
        /\ ret[t].client # nil
        /\ Len(ret[t].options) = 2
        /\ pc[u] = "options"
        /\ fr[u].i = 2
        /\ fr[u].dev0 # ret[t].dev0

====
